---- MODULE Spec2Model ----
(***************************************************************************)
(* Model of modelTypes/language_classification.py: the character-level     *)
(* dataset (vocabulary, encoding, train/validation split) and the          *)
(* Initialize / Train / Save contract of class Model.                      *)
(*                                                                         *)
(* Three specifications:                                                   *)
(*   SpecDataset  the pure functions SplitDataset, build_vocab, encode and *)
(*                __getitem__ applied to inputs drawn from bounded sets;   *)
(*   Spec         the controller's calls on a freshly constructed Model;   *)
(*   SpecEpoch    the controller's calls, with the epoch loop of Train     *)
(*                taken statement by statement, on a Model whose fields    *)
(*                are either as constructed or as lines 190-204 assign     *)
(*                them.                                                    *)
(***************************************************************************)
EXTENDS Integers, Sequences, FiniteSets, TLC

(***************************************************************************)
(* Bounds of the model.                                                    *)
(***************************************************************************)
MaxRecords == 3
MaxLen == 2
RoundingRecords == 50
MaxEpochs == 1
MaxBatch == 2
MaxCalls == 2
EndToEndFiles == 10

\* Python's None, and an attribute holding no value yet
None == <<>>

Min(a, b) == IF a < b THEN a ELSE b
Max(a, b) == IF a > b THEN a ELSE b

RECURSIVE Pow2(_)
Pow2(k) == IF k <= 0 THEN 1 ELSE 2 * Pow2(k - 1)

(***************************************************************************)
(* Records and texts.  A text is the sequence of its characters.           *)
(***************************************************************************)
\* the texts encode() is tried on; "c" occurs in no record
Texts == {<<>>, <<"b">>, <<"c", "a">>, <<"b", "a", "b">>}

Records ==
  { [message |-> <<"a", "b">>, channel |-> <<"a">>, label |-> 0],
    [message |-> <<>>, channel |-> <<"b">>, label |-> 1],
    [message |-> <<"a">>, channel |-> <<"b", "a", "b">>, label |-> 1] }

\* train_val_ratio in hundredths (line 30: min 0, max 0.99, step 0.01).
Ratios == {0, 58, 80}

(***************************************************************************)
(* int(train_val_ratio * datapoints), line 150, for the ratio p/100 held   *)
(* as an IEEE-754 binary64 and multiplied in binary64.                     *)
(*                                                                         *)
(* The double d nearest to p/100 has 53 significant bits: with e the least *)
(* exponent such that p * 2^e >= 100, d = M / 2^(52+e) and                 *)
(* rem = (p * 2^(52+e)) mod 100 tells the side on which d lies: rem = 0,   *)
(* d is exact; rem < 50, d is below p/100 by rem / (100 * 2^(52+e));       *)
(* rem > 50, d is above (rem = 50 cannot occur: 4 divides 2^(52+e)).       *)
(* The product d * n differs from p*n/100 by far less than 1/100, so the   *)
(* truncation differs from the exact quotient only when 100 divides p*n,   *)
(* say p*n = 100*k, d lies below p/100, and the product rounds to a double *)
(* below k: that is when the shortfall n * rem / (100 * 2^(52+e)) exceeds  *)
(* half the gap between k and the double before it, 2^(j-53) for k in      *)
(* (2^j, 2^(j+1)) and 2^(j-54) for k = 2^j.                                *)
(***************************************************************************)
RECURSIVE Pow2Mod100(_)
Pow2Mod100(s) == IF s = 0 THEN 1 ELSE (2 * Pow2Mod100(s - 1)) % 100

RECURSIVE ILog2(_)
ILog2(k) == IF k < 2 THEN 0 ELSE 1 + ILog2(k \div 2)

RatioExponent(p) == CHOOSE e \in 1..7 : p * Pow2(e) >= 100 /\ (e = 1 \/ p * Pow2(e - 1) < 100)

RatioRemainder(p) == (p * Pow2Mod100(52 + RatioExponent(p))) % 100

ExactTrainAmount(p, n) == (p * n) \div 100

TrainAmount(p, n) ==
  LET exact == p * n
      k == exact \div 100
  IN IF exact % 100 # 0 \/ exact = 0 THEN k
     ELSE LET e == RatioExponent(p)
              rem == RatioRemainder(p)
              j == ILog2(k)
              half == IF k = Pow2(j) THEN 4 ELSE 2
          IN IF rem = 0 \/ rem > 50 THEN k
             ELSE IF half * n * rem > 100 * Pow2(e + j) THEN k - 1 ELSE k

(***************************************************************************)
(* random.sample(range(datapoints), train_amount), line 153: any list of   *)
(* train_amount distinct indices.  Every such list is enumerated up to     *)
(* MaxRecords records; for the directory of RoundingRecords records only   *)
(* the two lists that take consecutive indices from 0 and from 1 are.      *)
(***************************************************************************)
Range(s) == {s[i] : i \in DOMAIN s}

Injective(s) == \A i, j \in DOMAIN s : i # j => s[i] # s[j]

Samples(n, k) ==
  IF n <= MaxRecords
  THEN {s \in [1..k -> 0..(n - 1)] : Injective(s)}
  ELSE {[i \in 1..k |-> (o + i - 1) % n] : o \in {0, 1}}

\* [i for i in range(datapoints) if i not in train_indices], line 154
RECURSIVE Complement(_, _, _)
Complement(i, n, train) ==
  IF i >= n THEN <<>>
  ELSE (IF i \in Range(train) THEN <<>> ELSE <<i>>) \o Complement(i + 1, n, train)

\* lines 156-162: data[i] for the indices, in their order (indices from 0)
Pick(data, indices) == [j \in DOMAIN indices |-> data[indices[j] + 1]]

(***************************************************************************)
(* CustomDataset, lines 95-119.                                            *)
(***************************************************************************)
\* the set build_vocab collects, lines 102-105
VocabChars(data) ==
  UNION {Range(data[i].message) \cup Range(data[i].channel) : i \in DOMAIN data}

\* the ids enumerate() hands out, line 106: idx + 1 for idx = 0 .. N-1
IdsZeroBased(n) == {idx : idx \in 0..(n - 1)}
EnumerateIds(n) == {idx + 1 : idx \in 0..(n - 1)}

\* line 106: the set is enumerated in an arbitrary order
Vocabs(data) ==
  LET cs == VocabChars(data)
      ids == EnumerateIds(Cardinality(cs))
  IN {v \in [cs -> ids] : \A c, d \in cs : c # d => v[c] # v[d]}

CustomDataset(data, max_length, vocab) ==
  [data |-> data, max_length |-> max_length, vocab |-> vocab]

Zeros(k) == [i \in 1..k |-> 0]

\* self.vocab.get(char, 0), line 109
VocabGet(vocab, char) == IF char \in DOMAIN vocab THEN vocab[char] ELSE 0

\* lines 108-110; [0] * k is empty for k <= 0
encode(ds, text) ==
  LET encoded == [i \in 1..Len(text) |-> VocabGet(ds.vocab, text[i])]
  IN encoded \o Zeros(ds.max_length - Len(encoded))

\* s[:m]
SliceTo(s, m) ==
  IF m >= 0 THEN SubSeq(s, 1, Min(m, Len(s))) ELSE SubSeq(s, 1, Max(Len(s) + m, 0))

\* lines 115-119 (idx from 0)
getitemNoSlice(ds, idx) ==
  LET rec == ds.data[idx + 1]
  IN [encoded |-> encode(ds, rec.message) \o encode(ds, rec.channel), label |-> rec.label]
getitem(ds, idx) ==
  LET rec == ds.data[idx + 1]
      message_encoded == SliceTo(encode(ds, rec.message), ds.max_length)
      channel_encoded == SliceTo(encode(ds, rec.channel), ds.max_length)
  IN [encoded |-> message_encoded \o channel_encoded, label |-> rec.label]

\* lines 121-135
RECURSIVE GetMaxLengthFrom(_, _, _)
GetMaxLengthFrom(data, i, max_length) ==
  IF i > Len(data) THEN max_length
  ELSE GetMaxLengthFrom(data, i + 1,
         IF Len(data[i].message) > max_length THEN Len(data[i].message) ELSE max_length)
GetMaxLength(data) == GetMaxLengthFrom(data, 1, 0)

\* lines 149-167, for one outcome of the sample and of the two enumerations
SplitResult(data, ratio, max_length, sample, tvocab, vvocab) ==
  LET datapoints == Len(data)
      train_amount == TrainAmount(ratio, datapoints)
      val_amount == datapoints - train_amount
      val_indices == Complement(0, datapoints, sample)
  IN [returned |-> TRUE,
      train_indices |-> sample,
      val_indices |-> val_indices,
      train_dataset |-> CustomDataset(Pick(data, sample), max_length, tvocab),
      val_dataset |-> CustomDataset(Pick(data, val_indices), max_length, vvocab),
      train_amount |-> train_amount,
      val_amount |-> val_amount]

\* before SplitDataset has returned
NoSplit ==
  [returned |-> FALSE, train_indices |-> <<>>, val_indices |-> <<>>,
   train_dataset |-> CustomDataset(<<>>, 0, <<>>),
   val_dataset |-> CustomDataset(<<>>, 0, <<>>),
   train_amount |-> 0, val_amount |-> 0]

SplitResults(data, ratio, max_length) ==
  LET n == Len(data)
  IN UNION { UNION { { SplitResult(data, ratio, max_length, s, tv, vv) :
                         vv \in Vocabs(Pick(data, Complement(0, n, s))) } :
                     tv \in Vocabs(Pick(data, s)) } :
             s \in Samples(n, TrainAmount(ratio, n)) }

(***************************************************************************)
(* State.                                                                  *)
(*   data, ratio, max_length   the arguments of SplitDataset               *)
(*   split                     what SplitDataset returned, with its locals *)
(*   item                      the last __getitem__ / encode result        *)
(*   hyp, directory            the hyperparameters and the data folder     *)
(*   error, exception, required_training_data                              *)
(*                             the fields __init__ sets to None            *)
(*   attrs                     the names of the attributes Initialize has  *)
(*                             assigned; reading another raises            *)
(*                             AttributeError                              *)
(*   data_length .. scheduler  the values of those attributes              *)
(*   pc .. phases              the position and the locals of the Train    *)
(*                             call in progress; ops lists what the batch  *)
(*                             in progress has done, phases the phases the *)
(*                             call has entered                            *)
(*   calls, train_failed, outcome, loads, builds, saved, propagated        *)
(*                             history: Train calls made, whether one has  *)
(*                             failed, how the last call ended, readings   *)
(*                             of the data folder, CustomDataset           *)
(*                             constructions, whether a model file has     *)
(*                             been written, and whether a call let an     *)
(*                             exception escape                            *)
(***************************************************************************)
VARIABLES data, ratio, max_length, split, item,
          hyp, directory,
          error, exception, propagated, required_training_data,
          attrs, data_length, train_dataset, val_dataset, train_size, val_size,
          train_dataloader, val_dataloader,
          model, optimizer, scaler, scheduler,
          pc, batch_index, loss, running_training_loss, training_loss,
          running_validation_loss, ops, phases,
          calls, train_failed, outcome, loads, builds, saved

dsVars == <<data, ratio, max_length, split, item>>
envVars == <<hyp, directory>>
errVars == <<error, exception, propagated>>
splitVars == <<attrs, data_length, train_dataset, val_dataset, train_size, val_size>>
loaderVars == <<train_dataloader, val_dataloader>>
torchVars == <<model, optimizer, scaler, scheduler>>
frameVars == <<pc, batch_index, loss, running_training_loss, training_loss,
               running_validation_loss, ops, phases>>
histVars == <<calls, train_failed, outcome, loads, builds, saved>>
vars == <<dsVars, envVars, errVars, required_training_data, splitVars, loaderVars,
          torchVars, frameVars, histVars>>

(***************************************************************************)
(* The hyperparameters the model reads (lines 25-38), the data folder.     *)
(***************************************************************************)
\* the ratios the controller specifications draw train_val_ratio from
ControllerRatios == {50, 80}

Hyperparameters ==
  [train_val_ratio : ControllerRatios,
   batch_size : 1..MaxBatch,
   epochs : 1..MaxEpochs,
   shuffle_each_epoch : BOOLEAN,
   shuffle_train : BOOLEAN,
   shuffle_val : BOOLEAN,
   drop_last : BOOLEAN]

DefaultHyperparameters ==
  [train_val_ratio |-> 80, batch_size |-> 1, epochs |-> 1, shuffle_each_epoch |-> TRUE,
   shuffle_train |-> TRUE, shuffle_val |-> TRUE, drop_last |-> FALSE]

\* a folder of n well-formed record files, the first half of class 0; a file is
\* its extension and its three lines
RecordFile(class) == [message |-> <<"a">>, channel |-> <<"a">>, label |-> class]
TextFile(class) == [ext |-> ".txt", lines |-> <<<<"a">>, <<"a">>, class>>]
Directory(n) == [f \in 1..n |-> IF 2 * f <= n THEN TextFile(0) ELSE TextFile(1)]

Directories == {Directory(n) : n \in (0..MaxRecords) \cup {EndToEndFiles}}

\* a folder of n well-formed record files of class 0
UniformDirectory(n) == [f \in 1..n |-> TextFile(0)]

\* lines 84-93 on well-formed files: one record per .txt file, in listing order
IsTextFile(file) == file.ext = ".txt"
load_data(data_folder) ==
  LET files == SelectSeq(data_folder, IsTextFile)
  IN [f \in DOMAIN files |->
        [message |-> files[f].lines[1], channel |-> files[f].lines[2],
         label |-> files[f].lines[3]]]

(***************************************************************************)
(* The objects Initialize builds, lines 193-204.                           *)
(***************************************************************************)
\* len(DataLoader(dataset, batch_size, drop_last)), lines 170 and 173
LoaderLength(n, batch_size, drop_last) ==
  IF drop_last THEN n \div batch_size ELSE (n + batch_size - 1) \div batch_size

\* the samples one pass over the loader yields
LoaderSamples(n, batch_size, drop_last) ==
  IF drop_last THEN (n \div batch_size) * batch_size ELSE n

\* a DataLoader; built numbers the constructions of the loader held in a field
DataLoader(dataset, h, built) ==
  [batches |-> LoaderLength(Len(dataset.data), h.batch_size, h.drop_last),
   samples |-> LoaderSamples(Len(dataset.data), h.batch_size, h.drop_last),
   built |-> built]

NoLoader == [batches |-> 0, samples |-> 0, built |-> 0]

\* nn.Module: created in training mode; params counts the updates applied
NeuralNetwork(id) == [id |-> id, mode |-> "train", params |-> 0]
Adam(id) == [id |-> id, steps |-> 0, grads |-> "none"]
GradScaler == [updates |-> 0]
\* OneCycleLR(steps_per_epoch, epochs): total_steps = epochs * steps_per_epoch,
\* last_epoch counts the calls of step()
OneCycleLR(steps_per_epoch, epochs) ==
  [steps_per_epoch |-> steps_per_epoch,
   total_steps |-> epochs * steps_per_epoch,
   last_epoch |-> 0]

NoModel == [id |-> 0, mode |-> "train", params |-> 0]
NoOptimizer == [id |-> 0, steps |-> 0, grads |-> "none"]
NoScheduler == [steps_per_epoch |-> 0, total_steps |-> 0, last_epoch |-> 0]

InitializeAttrs ==
  {"data_length", "model", "train_dataset", "val_dataset", "train_size", "val_size",
   "train_dataloader", "val_dataloader", "scaler", "criterion", "optimizer", "scheduler"}

(***************************************************************************)
(* Model.__init__, lines 58-68.                                            *)
(***************************************************************************)
Constructed ==
  /\ error = None /\ exception = None /\ propagated = FALSE
  /\ required_training_data = None
  /\ attrs = {}
  /\ data_length = 0
  /\ train_dataset = CustomDataset(<<>>, 0, <<>>)
  /\ val_dataset = CustomDataset(<<>>, 0, <<>>)
  /\ train_size = 0 /\ val_size = 0
  /\ train_dataloader = NoLoader /\ val_dataloader = NoLoader
  /\ model = NoModel /\ optimizer = NoOptimizer
  /\ scaler = GradScaler /\ scheduler = NoScheduler
  /\ loads = 0 /\ builds = 0

\* the call made last and how it ended ("running": it has not ended)
Outcome(call, how) == [call |-> call, how |-> how]
NoCall == Outcome("none", "none")

\* no call in progress, none made yet
Idle ==
  /\ pc = "idle" /\ batch_index = 0 /\ loss = 0
  /\ running_training_loss = <<0, 1>> /\ training_loss = <<0, 1>>
  /\ running_validation_loss = <<0, 1>> /\ ops = <<>> /\ phases = <<>>
  /\ calls = 0 /\ train_failed = FALSE /\ outcome = NoCall /\ saved = FALSE

NoArguments ==
  /\ data = <<>> /\ ratio = 0 /\ max_length = 0 /\ split = NoSplit
  /\ item = [op |-> "none"]

(***************************************************************************)
(* except Exception as e: self.error = str(e);                             *)
(* self.exception = traceback.format_exc()   (lines 226-228, 269-271,      *)
(* 329-331).  Every exception the calls raise here derives from Exception. *)
(***************************************************************************)
ExceptionKinds ==
  {"TypeError", "UnboundLocalError", "AttributeError", "ZeroDivisionError",
   "ValueError", "RuntimeError", "OSError"}

CaughtValueErrorOnly(kind) == kind \in {"ValueError", "RuntimeError", "OSError"}
Caught(kind) == kind \in ExceptionKinds

Handle(kind) ==
  IF Caught(kind)
  THEN /\ error' = <<kind>>
       /\ exception' = <<"Traceback (most recent call last)", kind>>
       /\ propagated' = propagated
  ELSE /\ propagated' = TRUE
       /\ UNCHANGED <<error, exception>>

\* the locals of a Train call are gone when it returns
Return(how) ==
  /\ pc' = "idle" /\ batch_index' = 0 /\ loss' = 0
  /\ running_training_loss' = <<0, 1>> /\ training_loss' = <<0, 1>>
  /\ running_validation_loss' = <<0, 1>> /\ ops' = <<>> /\ phases' = <<>>
  /\ outcome' = Outcome("Train", how)

\* a Train call ends in the except clause
TrainRaises(kind) ==
  /\ Handle(kind)
  /\ Return("raised")
  /\ train_failed' = TRUE

(***************************************************************************)
(* Initialize, lines 186-228.                                              *)
(***************************************************************************)
\* def load_data(data_folder), line 74, and def GetMaxLength(data), line 121:
\* the parameters each declares
load_data_params == 1
GetMaxLength_params == 1

\* self.f(a1 .. ak) passes self and the k arguments to f
BoundCallOK(params, k) == params = k + 1

\* line 193 reads the local vocab_size, first assigned in line 196
VocabSizeAssignedBeforeUse == FALSE

\* the first statement of Initialize that raises, "none" if none does
InitializeFailure ==
  IF ~BoundCallOK(load_data_params, 1) THEN "TypeError"
  ELSE IF ~BoundCallOK(GetMaxLength_params, 1) THEN "TypeError"
  ELSE IF ~VocabSizeAssignedBeforeUse THEN "UnboundLocalError"
  ELSE "none"

\* the fields lines 190-204 assign, for each outcome of the random sample and of
\* the vocabulary enumerations; OneCycleLR refuses steps_per_epoch = 0
InitializedObjects(data_folder, h) ==
  LET records == load_data(data_folder)
  IN { [data_length |-> Len(records),
        train_dataset |-> sp.train_dataset,
        val_dataset |-> sp.val_dataset,
        train_size |-> sp.train_amount,
        val_size |-> sp.val_amount,
        train_dataloader |-> DataLoader(sp.train_dataset, h, 1),
        val_dataloader |-> DataLoader(sp.val_dataset, h, 1),
        scheduler |-> OneCycleLR(DataLoader(sp.train_dataset, h, 1).batches, h.epochs)] :
       sp \in { r \in SplitResults(records, h.train_val_ratio, GetMaxLength(records)) :
                  DataLoader(r.train_dataset, h, 1).batches > 0 } }

Assign(o) ==
  /\ attrs' = InitializeAttrs
  /\ data_length' = o.data_length
  /\ train_dataset' = o.train_dataset /\ val_dataset' = o.val_dataset
  /\ train_size' = o.train_size /\ val_size' = o.val_size
  /\ train_dataloader' = o.train_dataloader /\ val_dataloader' = o.val_dataloader
  /\ model' = NeuralNetwork(model.id + 1)
  /\ optimizer' = Adam(optimizer.id + 1)
  /\ scaler' = GradScaler
  /\ scheduler' = o.scheduler
  /\ loads' = loads + 1 /\ builds' = builds + 2

Initialize ==
  /\ pc = "idle"
  /\ LET kind == InitializeFailure
       IN IF kind # "none"
          THEN /\ Handle(kind)
               /\ outcome' = Outcome("Initialize", "raised")
               /\ UNCHANGED <<splitVars, loaderVars, torchVars, loads, builds>>
          ELSE IF InitializedObjects(directory, hyp) = {}
          THEN /\ Handle("ValueError")
               /\ outcome' = Outcome("Initialize", "raised")
               /\ UNCHANGED <<splitVars, loaderVars, torchVars, loads, builds>>
          ELSE /\ \E o \in InitializedObjects(directory, hyp) : Assign(o)
               /\ outcome' = Outcome("Initialize", "returned")
               /\ UNCHANGED errVars
  /\ UNCHANGED <<dsVars, envVars, required_training_data, pc, batch_index, loss,
                 running_training_loss, training_loss, running_validation_loss,
                 ops, phases, calls, train_failed, saved>>

(***************************************************************************)
(* Train, lines 230-271.  A call is entered by TrainCall and then taken    *)
(* one statement at a time; pc names the statement about to run.           *)
(***************************************************************************)
\* the forward pass and the criterion: the loss is a function of the parameters
LossOf(m) == m.params + 1

\* the statements of a training batch in source order, lines 242-249
BatchOrderSchedulerFirst ==
  <<"zero_grad", "forward", "loss", "scheduler_step", "backward", "scaler_step",
    "scaler_update">>
BatchOrder ==
  <<"zero_grad", "forward", "loss", "backward", "scaler_step", "scaler_update",
    "scheduler_step">>

Position(op) == CHOOSE k \in DOMAIN BatchOrder : BatchOrder[k] = op

\* the pc after statement op of the batch numbered batch_index; "next_batch"
\* stands for the loop header of line 240
AfterOp(op) ==
  IF Position(op) < Len(BatchOrder) THEN BatchOrder[Position(op) + 1] ELSE "next_batch"

LoopHeader == IF batch_index + 1 < train_dataloader.batches THEN BatchOrder[1] ELSE "train_mean"

Goto(op) ==
  LET to == AfterOp(op)
  IN /\ pc' = (IF to = "next_batch" THEN LoopHeader ELSE to)
     /\ batch_index' = (IF to = "next_batch" THEN batch_index + 1 ELSE batch_index)
     /\ running_training_loss' =
          (IF to = "next_batch"
           THEN <<running_training_loss[1] + loss, 1>> ELSE running_training_loss)
     /\ ops' = Append(ops, op)

\* lines 233-235: what a Train call constructs anew before training; no
\* CustomDataset is constructed, so no vocabulary is built
EpochRebuildWithDatasets(h) ==
  [train_loader |-> h.shuffle_each_epoch /\ h.shuffle_train,
   val_loader |-> h.shuffle_each_epoch /\ h.shuffle_val,
   datasets |-> h.shuffle_each_epoch]
EpochRebuild(h) ==
  [train_loader |-> h.shuffle_each_epoch /\ h.shuffle_train,
   val_loader |-> h.shuffle_each_epoch /\ h.shuffle_val,
   datasets |-> FALSE]

\* lines 232-240: the per-epoch rebuild, model.train(), the first iteration of
\* the training loop.  CreateTrainDataLoader reads self.train_dataset,
\* CreateValDataLoader self.val_dataset.
TrainCall ==
  /\ pc = "idle"
  /\ calls < MaxCalls
  /\ calls' = calls + 1
  /\ LET rebuild == EpochRebuild(hyp)
         train_built == rebuild.train_loader /\ "train_dataset" \in attrs
         val_built == rebuild.val_loader /\ "val_dataset" \in attrs
                        /\ (rebuild.train_loader => train_built)
         missing == \/ rebuild.train_loader /\ ~train_built
                    \/ rebuild.val_loader /\ ~val_built
                    \/ "model" \notin attrs
                    \/ "train_dataloader" \notin attrs
         new_train == IF train_built
                      THEN DataLoader(train_dataset, hyp, train_dataloader.built + 1)
                      ELSE train_dataloader
     IN /\ train_dataloader' = new_train
        /\ val_dataloader' =
             (IF val_built
              THEN DataLoader(val_dataset, hyp, val_dataloader.built + 1)
              ELSE val_dataloader)
        /\ builds' = (IF rebuild.datasets /\ ~missing THEN builds + 2 ELSE builds)
        /\ IF missing
           THEN /\ TrainRaises("AttributeError")
                /\ UNCHANGED model
           ELSE /\ model' = [model EXCEPT !.mode = "train"]
                /\ pc' = (IF new_train.batches > 0 THEN BatchOrder[1] ELSE "train_mean")
                /\ phases' = <<"train">>
                /\ outcome' = Outcome("Train", "running")
                /\ UNCHANGED <<errVars, batch_index, loss, running_training_loss,
                               training_loss, running_validation_loss, ops, train_failed>>
  /\ UNCHANGED <<dsVars, envVars, required_training_data, splitVars, optimizer, scaler,
                 scheduler, loads, saved>>

InBatch(op) == pc = op /\ phases = <<"train">>

BatchFrame ==
  UNCHANGED <<dsVars, envVars, errVars, required_training_data, splitVars, loaderVars,
              training_loss, running_validation_loss, phases, histVars>>

\* line 242
ZeroGrad ==
  /\ InBatch("zero_grad")
  /\ optimizer' = [optimizer EXCEPT !.grads = "zero"]
  /\ pc' = AfterOp("zero_grad") /\ ops' = <<"zero_grad">>
  /\ UNCHANGED <<model, scaler, scheduler, loss, batch_index, running_training_loss>>
  /\ BatchFrame

\* lines 243-244
Forward ==
  /\ InBatch("forward")
  /\ Goto("forward")
  /\ UNCHANGED <<torchVars, loss>>
  /\ BatchFrame

\* line 245
Loss ==
  /\ InBatch("loss")
  /\ loss' = LossOf(model)
  /\ Goto("loss")
  /\ UNCHANGED torchVars
  /\ BatchFrame

\* line 246
Backward ==
  /\ InBatch("backward")
  /\ optimizer' = [optimizer EXCEPT !.grads = "set"]
  /\ Goto("backward")
  /\ UNCHANGED <<model, scaler, scheduler, loss>>
  /\ BatchFrame

\* line 247: scaler.step(optimizer) runs optimizer.step(), which updates the
\* parameters of the model
ScalerStep ==
  /\ InBatch("scaler_step")
  /\ optimizer' = [optimizer EXCEPT !.steps = @ + 1]
  /\ model' = [model EXCEPT !.params = @ + 1]
  /\ Goto("scaler_step")
  /\ UNCHANGED <<scaler, scheduler, loss>>
  /\ BatchFrame

\* line 248
ScalerUpdate ==
  /\ InBatch("scaler_update")
  /\ scaler' = [scaler EXCEPT !.updates = @ + 1]
  /\ Goto("scaler_update")
  /\ UNCHANGED <<model, optimizer, scheduler, loss>>
  /\ BatchFrame

\* lines 249-250: step() counts the call, then raises ValueError when the count
\* exceeds total_steps
SchedulerStep ==
  /\ InBatch("scheduler_step")
  /\ scheduler' = [scheduler EXCEPT !.last_epoch = @ + 1]
  /\ IF scheduler.last_epoch + 1 > scheduler.total_steps
     THEN /\ TrainRaises("ValueError")
          /\ UNCHANGED <<calls, loads, builds, saved>>
     ELSE /\ Goto("scheduler_step")
          /\ UNCHANGED <<errVars, loss, training_loss, running_validation_loss, phases,
                         histVars>>
  /\ UNCHANGED <<dsVars, envVars, required_training_data, splitVars, loaderVars,
                 model, optimizer, scaler>>

CallFrame ==
  UNCHANGED <<dsVars, envVars, splitVars, loaderVars, optimizer, scaler, scheduler,
              calls, loads, builds, saved>>

\* lines 251-258: the mean of the training losses, model.eval(), the first
\* iteration of the validation loop
TrainMeanPublishing ==
  /\ pc = "train_mean"
  /\ training_loss' = <<running_training_loss[1], train_dataloader.batches>>
  /\ required_training_data' = <<training_loss', <<0, 1>>>>
  /\ model' = [model EXCEPT !.mode = "eval"]
  /\ phases' = Append(phases, "validation")
  /\ pc' = (IF val_dataloader.batches > 0 THEN "val_batch" ELSE "val_mean")
  /\ batch_index' = 0 /\ ops' = <<>>
  /\ running_training_loss' = training_loss'
  /\ UNCHANGED <<errVars, loss, running_validation_loss, train_failed, outcome>>
  /\ CallFrame

TrainMean ==
  /\ pc = "train_mean"
  /\ IF train_dataloader.batches = 0
     THEN /\ TrainRaises("ZeroDivisionError")
          /\ UNCHANGED model
     ELSE /\ training_loss' = <<running_training_loss[1], train_dataloader.batches>>
          /\ running_training_loss' = training_loss'
          /\ model' = [model EXCEPT !.mode = "eval"]
          /\ phases' = Append(phases, "validation")
          /\ pc' = (IF val_dataloader.batches > 0 THEN "val_batch" ELSE "val_mean")
          /\ batch_index' = 0 /\ ops' = <<>>
          /\ UNCHANGED <<errVars, loss, running_validation_loss, train_failed, outcome>>
  /\ UNCHANGED required_training_data
  /\ CallFrame

\* lines 258-262, under torch.no_grad()
ValBatchUpdating ==
  /\ pc = "val_batch"
  /\ loss' = LossOf(model)
  /\ running_validation_loss' = <<running_validation_loss[1] + loss', 1>>
  /\ batch_index' = batch_index + 1
  /\ pc' = (IF batch_index + 1 < val_dataloader.batches THEN "val_batch" ELSE "val_mean")
  /\ model' = [model EXCEPT !.params = @ + 1]
  /\ UNCHANGED <<errVars, required_training_data, running_training_loss,
                 training_loss, ops, phases, train_failed, outcome>>
  /\ CallFrame

ValBatch ==
  /\ pc = "val_batch"
  /\ loss' = LossOf(model)
  /\ running_validation_loss' = <<running_validation_loss[1] + loss', 1>>
  /\ batch_index' = batch_index + 1
  /\ pc' = (IF batch_index + 1 < val_dataloader.batches THEN "val_batch" ELSE "val_mean")
  /\ UNCHANGED <<errVars, required_training_data, model, running_training_loss,
                 training_loss, ops, phases, train_failed, outcome>>
  /\ CallFrame

\* lines 263-268: the mean of the validation losses, then the metrics
ValMeanClearingError ==
  /\ pc = "val_mean"
  /\ val_dataloader.batches > 0
  /\ required_training_data' =
       <<training_loss, <<running_validation_loss[1], val_dataloader.batches>>>>
  /\ error' = None /\ exception' = None /\ propagated' = propagated
  /\ Return("returned")
  /\ UNCHANGED <<model, train_failed>>
  /\ CallFrame

ValMean ==
  /\ pc = "val_mean"
  /\ IF val_dataloader.batches = 0
     THEN /\ TrainRaises("ZeroDivisionError")
          /\ UNCHANGED required_training_data
     ELSE /\ required_training_data' =
               <<training_loss, <<running_validation_loss[1], val_dataloader.batches>>>>
          /\ Return("returned")
          /\ UNCHANGED <<errVars, train_failed>>
  /\ UNCHANGED model
  /\ CallFrame

\* a tensor operation fails (out of memory, a shape mismatch, the device):
\* the transfer of line 241, the forward passes of lines 244 and 260, the
\* backward pass of line 246
RuntimeFailure ==
  /\ pc \in {"zero_grad", "forward", "backward", "val_batch"}
  /\ TrainRaises("RuntimeError")
  /\ UNCHANGED <<required_training_data, model>>
  /\ CallFrame

(***************************************************************************)
(* Save(model, training_data), lines 273-331.  The controller passes the   *)
(* model of the object, another module or None, and the metrics of the     *)
(* object or None; the forward passes and the file system may fail.        *)
(***************************************************************************)
SaveFailure(which, given, env) ==
  IF which = "none" THEN "AttributeError"
  ELSE IF "train_dataloader" \notin attrs THEN "AttributeError"
  ELSE IF env = "RuntimeError" THEN "RuntimeError"
  ELSE IF train_dataloader.samples = 0 THEN "ZeroDivisionError"
  ELSE IF "val_dataloader" \notin attrs THEN "AttributeError"
  ELSE IF val_dataloader.samples = 0 THEN "ZeroDivisionError"
  ELSE IF {"optimizer", "criterion", "train_size", "val_size"} \ attrs # {}
       THEN "AttributeError"
  ELSE IF given = None THEN "AttributeError"
  ELSE IF "data_length" \notin attrs THEN "AttributeError"
  ELSE IF env = "OSError" THEN "OSError"
  ELSE "none"

Save ==
  /\ pc = "idle"
  /\ \E which \in {"self", "other", "none"},
        given \in {None, required_training_data},
        env \in {"none", "RuntimeError", "OSError"} :
       /\ which = "self" => "model" \in attrs
       /\ model' = (IF which = "self" THEN [model EXCEPT !.mode = "eval"] ELSE model)
       /\ LET kind == SaveFailure(which, given, env)
          IN IF kind # "none"
             THEN /\ Handle(kind)
                  /\ outcome' = Outcome("Save", "raised")
                  /\ UNCHANGED saved
             ELSE /\ saved' = TRUE
                  /\ outcome' = Outcome("Save", "returned")
                  /\ UNCHANGED errVars
  /\ UNCHANGED <<dsVars, envVars, required_training_data, splitVars, loaderVars,
                 optimizer, scaler, scheduler, pc, batch_index, loss,
                 running_training_loss, training_loss, running_validation_loss, ops,
                 phases, calls, train_failed, loads, builds>>

(***************************************************************************)
(* SpecDataset: SplitDataset, __getitem__ and encode on drawn inputs.      *)
(***************************************************************************)
RECURSIVE SeqsUpTo(_, _)
SeqsUpTo(S, n) ==
  IF n = 0 THEN {<<>>}
  ELSE LET shorter == SeqsUpTo(S, n - 1)
       IN shorter \cup {Append(s, x) : s \in {t \in shorter : Len(t) = n - 1}, x \in S}

RoundingData == [r \in 1..RoundingRecords |-> RecordFile(0)]

DataSets == SeqsUpTo(Records, MaxRecords) \cup {RoundingData}

InitDataset ==
  /\ data \in DataSets
  /\ ratio \in Ratios
  /\ max_length \in 0..MaxLen
  /\ split = NoSplit /\ item = [op |-> "none"]
  /\ hyp = DefaultHyperparameters /\ directory = <<>>
  /\ Constructed /\ Idle

ObjectUnchanged ==
  UNCHANGED <<envVars, errVars, required_training_data, splitVars, loaderVars,
              torchVars, frameVars, histVars>>

SplitDataset ==
  /\ ~split.returned
  /\ split' \in SplitResults(data, ratio, max_length)
  /\ UNCHANGED <<data, ratio, max_length, item>>
  /\ ObjectUnchanged

Datasets == IF split.returned THEN {split.train_dataset, split.val_dataset} ELSE {}

GetItem ==
  /\ item.op = "none"
  /\ \E ds \in Datasets : \E idx \in 0..(Len(ds.data) - 1) :
        item' = [op |-> "getitem", ds |-> ds, idx |-> idx, out |-> getitem(ds, idx).encoded]
  /\ UNCHANGED <<data, ratio, max_length, split>>
  /\ ObjectUnchanged

Encode ==
  /\ item.op = "none"
  /\ \E ds \in Datasets : \E text \in Texts :
        item' = [op |-> "encode", ds |-> ds, text |-> text, out |-> encode(ds, text)]
  /\ UNCHANGED <<data, ratio, max_length, split>>
  /\ ObjectUnchanged

NextDataset == SplitDataset \/ GetItem \/ Encode

SpecDataset == InitDataset /\ [][NextDataset]_vars

(***************************************************************************)
(* Properties of the dataset functions (SpecDataset).                      *)
(***************************************************************************)
IndexSet(indices) == {indices[k] : k \in DOMAIN indices}

\* the indices are split into two lists without repetition that share nothing
\* and together hold 0 .. n-1
PartitionsIndices(n, train, val) ==
  /\ Injective(train) /\ Injective(val)
  /\ IndexSet(train) \cap IndexSet(val) = {}
  /\ IndexSet(train) \cup IndexSet(val) = 0..(n - 1)

\* C3: for n records and the ratio r = ratio/100, SplitDataset returns
\* train_amount = floor(r*n) and val_amount = n - train_amount, the datasets hold
\* that many records, and the train and validation indices partition 0..n-1,
\* whichever sample was drawn.
C3_SplitSizesAndPartition ==
  split.returned =>
    LET n == Len(data)
    IN /\ split.train_amount = ExactTrainAmount(ratio, n)
       /\ split.val_amount = n - split.train_amount
       /\ Len(split.train_dataset.data) = split.train_amount
       /\ Len(split.val_dataset.data) = split.val_amount
       /\ PartitionsIndices(n, split.train_indices, split.val_indices)

\* What holds of SplitDataset beside C3: the sizes add up, the datasets have the
\* sizes returned, the indices partition 0..n-1, and train_amount is floor(r*n)
\* or one less.
SplitAddsUpAndPartitions ==
  split.returned =>
    LET n == Len(data)
    IN /\ split.train_amount \in {ExactTrainAmount(ratio, n), ExactTrainAmount(ratio, n) - 1}
       /\ split.train_amount >= 0
       /\ split.val_amount = n - split.train_amount
       /\ Len(split.train_dataset.data) = split.train_amount
       /\ Len(split.val_dataset.data) = split.val_amount
       /\ PartitionsIndices(n, split.train_indices, split.val_indices)

\* the field the claim describes for a text: the id of each of the first m
\* characters, then zeros up to m entries
ExpectedField(vocab, text, m) ==
  [k \in 1..m |-> IF k <= Len(text) THEN vocab[text[k]] ELSE 0]

\* C4: the encoded sample of a dataset item is the message field followed by the
\* channel field, each of exactly max_length entries: the ids of the characters,
\* padded with zeros on the right when the text is shorter than max_length, cut
\* after max_length characters when it is longer; 2 * max_length entries in all.
C4_EncodedFieldsHaveMaxLength ==
  item.op = "getitem" =>
    LET ds == item.ds
        m == ds.max_length
        rec == ds.data[item.idx + 1]
    IN /\ Len(item.out) = 2 * m
       /\ SubSeq(item.out, 1, m) = ExpectedField(ds.vocab, rec.message, m)
       /\ SubSeq(item.out, m + 1, 2 * m) = ExpectedField(ds.vocab, rec.channel, m)

\* an item whose message is shorter and whose channel is longer than max_length
C4_Witness ==
  /\ item.op = "getitem"
  /\ Len(item.ds.data[item.idx + 1].message) < item.ds.max_length
  /\ Len(item.ds.data[item.idx + 1].channel) > item.ds.max_length

\* an item whose message has exactly max_length characters, max_length > 0
C4_WitnessExact ==
  /\ item.op = "getitem"
  /\ item.ds.max_length > 0
  /\ Len(item.ds.data[item.idx + 1].message) = item.ds.max_length

\* the characters that occur in a message or a channel of the records
OccurringChars(records) ==
  {c \in {"a", "b", "c"} :
     \E r \in DOMAIN records :
        \/ \E k \in DOMAIN records[r].message : records[r].message[k] = c
        \/ \E k \in DOMAIN records[r].channel : records[r].channel[k] = c}

\* C8: the vocabulary of a dataset maps the N distinct characters of its messages
\* and channels one-to-one onto 1..N, so never to 0, and encode() gives 0 for a
\* character that is not in the vocabulary (and its id for one that is).
C8_VocabularyIds ==
  /\ \A ds \in Datasets :
       LET cs == OccurringChars(ds.data)
       IN /\ DOMAIN ds.vocab = cs
          /\ {ds.vocab[c] : c \in cs} = 1..Cardinality(cs)
          /\ \A c, d \in cs : c # d => ds.vocab[c] # ds.vocab[d]
  /\ item.op = "encode" =>
       \A k \in 1..Len(item.text) :
          IF item.text[k] \in DOMAIN item.ds.vocab
          THEN item.out[k] = item.ds.vocab[item.text[k]] /\ item.out[k] # 0
          ELSE item.out[k] = 0

\* encode() met a character outside a vocabulary of two characters
C8_Witness ==
  /\ item.op = "encode"
  /\ Cardinality(DOMAIN item.ds.vocab) = 2
  /\ \E k \in 1..Len(item.text) : item.text[k] \notin DOMAIN item.ds.vocab

(***************************************************************************)
(* Spec: the controller's calls on a freshly constructed Model.  No call   *)
(* gets past its first statements (Initialize raises in line 189 and so    *)
(* assigns nothing), so the statements of the epoch loop are not among the *)
(* steps.                                                                  *)
(***************************************************************************)
Init ==
  /\ hyp \in Hyperparameters
  /\ directory \in Directories
  /\ NoArguments
  /\ Constructed /\ Idle

Next == Initialize \/ TrainCall \/ Save

Spec == Init /\ [][Next]_vars

(***************************************************************************)
(* SpecEpoch: the same calls on a Model that is either as constructed or   *)
(* holds the fields lines 190-204 assign for a folder of up to MaxRecords  *)
(* files of one class, with the epoch loop.                                *)
(***************************************************************************)
SetUp ==
  /\ error = None /\ exception = None /\ propagated = FALSE
  /\ required_training_data = None
  /\ \E o \in InitializedObjects(directory, hyp) :
       /\ attrs = InitializeAttrs
       /\ data_length = o.data_length
       /\ train_dataset = o.train_dataset /\ val_dataset = o.val_dataset
       /\ train_size = o.train_size /\ val_size = o.val_size
       /\ train_dataloader = o.train_dataloader /\ val_dataloader = o.val_dataloader
       /\ scheduler = o.scheduler
  /\ model = NeuralNetwork(1) /\ optimizer = Adam(1) /\ scaler = GradScaler
  /\ loads = 1 /\ builds = 2

InitEpoch ==
  /\ hyp \in Hyperparameters
  /\ directory \in {UniformDirectory(n) : n \in 0..MaxRecords}
  /\ NoArguments
  /\ Constructed \/ SetUp
  /\ Idle

NextEpoch ==
  \/ Initialize \/ TrainCall \/ Save
  \/ ZeroGrad \/ Forward \/ Loss \/ Backward \/ ScalerStep \/ ScalerUpdate
  \/ SchedulerStep \/ TrainMean \/ ValBatch \/ ValMean \/ RuntimeFailure

SpecEpoch == InitEpoch /\ [][NextEpoch]_vars

(***************************************************************************)
(* Properties of the calls.                                                *)
(***************************************************************************)
\* a step of a Train call: its entry, or a statement of a call in progress
TrainStep == pc # "idle" \/ calls' # calls

\* the step on which a Train call is entered and goes on to its training loop
TrainEntered == pc = "idle" /\ pc' # "idle"

\* the step on which a Train call ends in its except clause
TrainFails == TrainStep /\ outcome' = Outcome("Train", "raised")

\* the step on which a Train call returns from its last statement
TrainSucceeds == TrainStep /\ outcome' = Outcome("Train", "returned")

\* C1: no call of Initialize, Train or Save lets an exception escape, and a call
\* in which a failure occurred returns with error and exception both set.
C1_FailuresAreStored ==
  /\ ~propagated
  /\ outcome.how = "raised" => error # None /\ exception # None

\* a Train call has just ended in a division by zero, a Save in an I/O error
C1_Witness ==
  \/ outcome = Outcome("Train", "raised") /\ error = <<"ZeroDivisionError">>
                                            /\ exception # None
C1_WitnessSave ==
  outcome = Outcome("Save", "raised") /\ error = <<"OSError">> /\ exception # None

\* C2: on a fresh Model over a folder of EndToEndFiles = 10 well-formed files,
\* 5 of each class, with train_val_ratio 0.8, Initialize yields train_size = 8
\* and val_size = 2, and the Train call that follows ends with error unset.
C2_EndToEnd ==
  (directory = Directory(EndToEndFiles) /\ hyp.train_val_ratio = 80) =>
    /\ (outcome.call = "Initialize" /\ calls = 0 /\ ~saved) =>
          /\ {"train_size", "val_size"} \subseteq attrs
          /\ train_size = 8 /\ val_size = 2
          /\ error = None
    /\ (outcome.call = "Train" /\ outcome.how # "running" /\ calls = 1
        /\ "train_size" \in attrs /\ ~saved) => error = None

\* C5: a Train call enters its training phase, then, after all the training
\* batches, its validation phase, and returns after all the validation batches;
\* no step of the validation phase changes the parameters of the model, the
\* optimizer, the scaler or the step count of the scheduler.
C5_TrainThenValidate ==
  /\ [](phases \in {<<>>, <<"train">>, <<"train", "validation">>})
  /\ [][/\ (phases = <<"train">> /\ phases' = <<"train", "validation">>) =>
              batch_index = train_dataloader.batches
        /\ (phases # <<"train">> /\ phases' = <<"train">>) => phases = <<>>
        /\ (phases = <<"train", "validation">>) =>
              /\ model.params' = model.params
              /\ optimizer' = optimizer
              /\ scaler' = scaler
              /\ scheduler' = scheduler
        /\ TrainSucceeds =>
              /\ phases = <<"train", "validation">>
              /\ batch_index = val_dataloader.batches]_vars

\* the validation phase of a call that trained two batches is at its end
C5_Witness ==
  /\ pc = "val_mean"
  /\ phases = <<"train", "validation">>
  /\ batch_index = val_dataloader.batches /\ batch_index >= 1
  /\ train_dataloader.batches = 2 /\ model.params = 2

\* the order claimed for the statements of a training batch
ClaimedOrder ==
  <<"zero_grad", "forward", "loss", "backward", "scaler_step", "scaler_update",
    "scheduler_step">>

\* the training-loader length fixed at Initialize
StepsPerEpoch == LoaderLength(train_size, hyp.batch_size, hyp.drop_last)

C9_ErrorIsSticky ==
  [][error # None => error' # None /\ exception' # None]_vars

\* a Train call has just returned without a failure while error is set
C9_Witness ==
  /\ pc = "idle" /\ outcome = Outcome("Train", "returned")
  /\ error # None /\ exception # None
  /\ required_training_data # None

\* C10: a Train call sets required_training_data only on returning from its
\* last statement, to the mean training loss and the mean validation loss of
\* that call; a call that fails sets error, leaves required_training_data as it
\* was and keeps the parameter updates made before the failure.
C10_MetricsOnlyAtTheEnd ==
  [][TrainStep =>
       /\ TrainSucceeds =>
            /\ required_training_data' =
                 << <<running_training_loss[1], train_dataloader.batches>>,
                    <<running_validation_loss[1], val_dataloader.batches>> >>
            /\ running_training_loss[2] = train_dataloader.batches
       /\ ~TrainSucceeds => required_training_data' = required_training_data
       /\ TrainFails =>
            /\ error' # None
            /\ model.params' = model.params /\ optimizer.steps' = optimizer.steps]_vars

\* a Train call that updated the parameters has failed on stepping the scheduler
\* past its schedule, the metrics being those of the epoch before
C10_Witness ==
  /\ pc = "idle" /\ outcome = Outcome("Train", "raised")
  /\ error = <<"ValueError">>
  /\ required_training_data # None
  /\ model.params > required_training_data[1][2]

====
